---- MODULE Spec2Model ----
(***************************************************************************)
(* teller: a log shipper that tails a file and forwards every line over    *)
(* one QUIC stream, interleaved with heartbeats.  The repository holds two *)
(* variants of the program: src/app.go ("app", fail-fast on a write error) *)
(* and src/unnamed/part_000 ("part_000", which also keeps the failed       *)
(* record in App.Requsts and reads a reply after every write).             *)
(*                                                                         *)
(* The model has three contexts: the main goroutine (main, then            *)
(* TailAndProcess and its select loop), the tail library's producer        *)
(* goroutine feeding the unbuffered channel t.Lines, and the runtime       *)
(* ticker feeding the one-slot channel ticker.C.                           *)
(***************************************************************************)
EXTENDS Integers, Sequences, FiniteSets, TLC

\* ------------------------------------------------------------------ bounds
MaxLines == 2     \* lines the tail producer delivers in one run
MaxTicks == 2     \* heartbeat intervals that elapse in one run
MaxQuietTicks == 3   \* intervals that elapse in a run in which no line arrives

\* --------------------------------------------------------------- constants
RequstsInitLen == 500   \* make([]SyslogLine, 500)

Variants == {"app", "part_000"}

\* Bytes of a line's text: a plain letter, a double quote (which JSON
\* escapes) and a byte that is not valid UTF-8.
Chars == {"a", "QUOTE", "BAD"}

\* The texts a line may carry: empty, plain, one with a quote, one with an
\* invalid byte.
Texts == {<<>>, <<"a">>, <<"a", "QUOTE">>, <<"BAD">>}

\* The values the tail library sends on t.Lines: a line read from the file, or
\* a line that carries a read error.
Lines == {[Text |-> t, Err |-> FALSE] : t \in Texts} \cup {[Text |-> <<"a">>, Err |-> TRUE]}

\* ------------------------------------------------------------ pure helpers
RECURSIVE Flatten(_)
Flatten(ss) == IF ss = <<>> THEN <<>> ELSE Head(ss) \o Flatten(Tail(ss))

\* encoding/json's string encoder, one input byte at a time: a double quote is
\* written as backslash + quote, a byte that is not valid UTF-8 is written as
\* the six-character escape for U+FFFD (one token here), any other byte as itself.
EscapeByte(c) ==
    IF c = "QUOTE" THEN <<"BSLASH", "QUOTE">>
    ELSE IF c = "BAD" THEN <<"ESC_FFFD">>
    ELSE <<c>>

RECURSIVE EscapeString(_)
EscapeString(t) == IF t = <<>> THEN <<>> ELSE EscapeByte(Head(t)) \o EscapeString(Tail(t))

\* SyslogLine values.  Only the fields that differ between records are kept:
\* Hostname tells a built record from the zero value, Beat is the heartbeat flag
\* of part_000.
ZeroSyslogLine == [Beat |-> FALSE, Hostname |-> "", Message |-> <<>>]

NewSyslogLine(v, text) ==
    [Beat |-> FALSE, Hostname |-> IF v = "app" THEN "host" ELSE "localhost", Message |-> text]

BeatSyslogLine == [Beat |-> TRUE, Hostname |-> "", Message |-> <<>>]

\* json.Marshal of a SyslogLine: an object whose message is the escaped text;
\* part_000's struct has the extra leading field "beat".
Marshal(v, sl) ==
    (IF v = "app" THEN <<"{">> ELSE <<"{", IF sl.Beat THEN "beat:true" ELSE "beat:false">>)
        \o EscapeString(sl.Message) \o <<"}">>

\* The bytes handed to stream.Write for a log line: app.go appends '\n' to the
\* JSON, part_000 writes the JSON alone.
LineData(v, sl) ==
    IF v = "app" THEN Append(Marshal(v, sl), "LF") ELSE Marshal(v, sl)

\* The bytes handed to stream.Write for a heartbeat: app.go writes the literal
\* |beat|, part_000 the JSON of a SyslogLine with Beat set.
BeatData(v) ==
    IF v = "app" THEN <<"|", "b", "e", "a", "t", "|">> ELSE Marshal(v, BeatSyslogLine)

\* ------------------------------------------------------------------- state
VARIABLES
    variant,       \* which of the two programs runs
    pc,            \* position of the main goroutine
    exitStatus,    \* -1 while the process runs, else its exit status
    cause,         \* why the process ended ("none" while it runs)
    connOpens,     \* successful quic.DialAddr calls
    connCloses,    \* Conn.CloseWithError calls
    streamOpens,   \* successful OpenStreamSync calls
    streamCloses,  \* stream.Close calls
    tailStarted,   \* tail.TailFile has returned a Tail
    ticker,        \* "none", "running" or "stopped"
    tickPending,   \* a tick sits in the one-slot channel ticker.C
    offer,         \* the line the producer is blocked sending on t.Lines
    tailClosed,    \* t.Lines has been closed
    received,      \* history: lines the loop took from t.Lines
    events,        \* history: lines offered and intervals elapsed, in time order
    writes,        \* history: stream.Write calls, in call order
    Requsts,       \* App.Requsts
    Memory         \* the mutex App.Memory of part_000

vars == <<variant, pc, exitStatus, cause, connOpens, connCloses, streamOpens,
          streamCloses, tailStarted, ticker, tickPending, offer, tailClosed,
          received, events, writes, Requsts, Memory>>

Running == exitStatus = -1

LineEvents == SelectSeq(events, LAMBDA e : e.kind = "line")
TickEvents == SelectSeq(events, LAMBDA e : e.kind = "tick")

\* App.Requsts as main builds it: part_000 makes a slice of 500 zero values;
\* app.go has no such field.  The slice is kept as the number of zero values
\* it starts with and the records appended after them.
InitRequsts(v) ==
    [nzero |-> IF v = "part_000" THEN RequstsInitLen ELSE 0, appended |-> <<>>]

\* The elements of App.Requsts, in order.
RequstsSlice == [i \in 1..Requsts.nzero |-> ZeroSyslogLine] \o Requsts.appended

\* A sync.Mutex: whether it is held, how often it was acquired, and whether it
\* was misused.  Lock on a mutex its own goroutine holds never returns and
\* Unlock of a free mutex is a fatal error; both are recorded as bad.
FreeMutex == [held |-> FALSE, locks |-> 0, bad |-> FALSE]

Lock(m) ==
    IF m.held THEN [m EXCEPT !.bad = TRUE]
    ELSE [m EXCEPT !.held = TRUE, !.locks = @ + 1]

Unlock(m) ==
    IF m.held THEN [m EXCEPT !.held = FALSE] ELSE [m EXCEPT !.bad = TRUE]

Init ==
    /\ variant \in Variants
    /\ pc = "connect"
    /\ exitStatus = -1
    /\ cause = "none"
    /\ connOpens = 0
    /\ connCloses = 0
    /\ streamOpens = 0
    /\ streamCloses = 0
    /\ tailStarted = FALSE
    /\ ticker = "none"
    /\ tickPending = FALSE
    /\ offer = <<>>
    /\ tailClosed = FALSE
    /\ received = <<>>
    /\ events = <<>>
    /\ writes = <<>>
    /\ Requsts = InitRequsts(variant)
    /\ Memory = FreeMutex

\* ----------------------------------------------------- decisions of the code
\* Mutant: empty lines are skipped as well.
LineSkippedEmpty(v, line) == (v = "app" /\ line.Err) \/ line.Text = <<>>

\* app.go skips a line that carries a read error; part_000 never looks at line.Err.
LineSkipped(v, line) == v = "app" /\ line.Err

\* Mutant: the write is started without waiting for it (go stream.Write(data)).
PcDuringWriteAsync == "select"

\* stream.Write is a blocking call: the loop stays in it until it returns.
PcDuringWrite == "writing"

\* Mutant: a stream per record, opened again after every successful write.
AfterWriteOkReopen(v) == "open"

\* After a write that succeeded app.go selects again; part_000 first reads a
\* reply from the stream.
AfterWriteOk(v) == IF v = "app" THEN "select" ELSE "reading"

\* Mutant: a failed heartbeat is logged and the loop continues.
WriteErrReturnsLineOnly(v, kind) == kind = "line"

\* A write error ends the loop (return) for a log line and for a heartbeat alike.
WriteErrReturns(v, kind) == TRUE

\* part_000 on a received line: a.Memory.Lock(), a.Lines.WriteString, then
\* a.Memory.Unlock() on the error branch and on the normal path alike.  app.go
\* has no mutex.
BufferLineLocking(v, m) == IF v = "part_000" THEN Unlock(Lock(m)) ELSE m

\* Mutant: AddRequest without its deferred Unlock.
AddRequestLockingNoUnlock(v, kind, m) ==
    IF v = "part_000" /\ kind = "line" THEN Lock(m) ELSE m

\* part_000's AddRequest, called for a failed log-line write: a.Memory.Lock(),
\* defer a.Memory.Unlock(), append.
AddRequestLocking(v, kind, m) ==
    IF v = "part_000" /\ kind = "line" THEN Unlock(Lock(m)) ELSE m

\* Mutant: the stream-open error is printed and the function goes on to the loop.
OpenErrIgnored(v) == FALSE

\* A stream-open error ends TailAndProcess (return) in both programs.
OpenErrReturns(v) == TRUE

\* part_000 passes the record of a failed log-line write to AddRequest, which
\* appends it; a failed heartbeat is not buffered, and app.go buffers nothing.
RequstsAfterWriteErr(v, kind, reqs, sl) ==
    IF v = "part_000" /\ kind = "line"
    THEN [reqs EXCEPT !.appended = Append(@, sl)]
    ELSE reqs

\* app.go's main defers Conn.CloseWithError; part_000's main never closes.
MainClosesConn(v) == v = "app"

\* The exit status when tail.TailFile fails: app.go calls log.Fatalf (status 1,
\* deferred calls do not run); part_000 returns, and main returns after it.
TailFailStatus(v) == IF v = "app" THEN 1 ELSE 0

\* The exit status when main returns normally.
ReturnStatus == 0

\* The loop is suspended: in select with neither case ready, inside
\* stream.Write or stream.Read, or (part_000, whose ticker starts first) inside
\* OpenStreamSync.  Handling an event takes far less than an interval, so an
\* interval elapses only while the loop is suspended.
LoopBlocked ==
    \/ pc \in {"writing", "reading"}
    \/ pc = "select" /\ ~tickPending /\ offer = <<>> /\ ~tailClosed
    \/ pc = "open"

\* ----------------------------------------------------------------- actions
\* main: InitQUICConnection succeeds; app.go defers the close.
ConnectOk ==
    /\ Running /\ pc = "connect"
    /\ connOpens' = connOpens + 1
    /\ pc' = "tail"
    /\ UNCHANGED <<variant, Memory, exitStatus, cause, connCloses, streamOpens, streamCloses,
                   tailStarted, ticker, tickPending, offer, tailClosed, received,
                   events, writes, Requsts>>

\* main: InitQUICConnection fails; log.Fatalf ends the process with status 1.
ConnectFail ==
    /\ Running /\ pc = "connect"
    /\ pc' = "exited"
    /\ exitStatus' = 1
    /\ cause' = "connect"
    /\ UNCHANGED <<variant, Memory, connOpens, connCloses, streamOpens, streamCloses,
                   tailStarted, ticker, tickPending, offer, tailClosed, received,
                   events, writes, Requsts>>

\* TailAndProcess: tail.TailFile succeeds.  part_000 creates its ticker right
\* after, before it opens the stream.
TailOk ==
    /\ Running /\ pc = "tail"
    /\ tailStarted' = TRUE
    /\ ticker' = IF variant = "part_000" THEN "running" ELSE ticker
    /\ pc' = "open"
    /\ UNCHANGED <<variant, Memory, exitStatus, cause, connOpens, connCloses, streamOpens,
                   streamCloses, tickPending, offer, tailClosed, received, events,
                   writes, Requsts>>

\* TailAndProcess: tail.TailFile fails.  app.go: log.Fatalf, so main's deferred
\* close does not run.  part_000: return, then main returns.
TailFail ==
    /\ Running /\ pc = "tail"
    /\ pc' = "exited"
    /\ exitStatus' = TailFailStatus(variant)
    /\ cause' = "tail"
    /\ UNCHANGED <<variant, Memory, connOpens, connCloses, streamOpens, streamCloses,
                   tailStarted, ticker, tickPending, offer, tailClosed, received,
                   events, writes, Requsts>>

\* Mutant: the stream is closed by explicit calls on the error paths only, not
\* by a deferred call, so the return on a closed tail channel leaves it open.
ReturnToMainCloseOnError(why, streamWasOpen) ==
    /\ pc' = "exited"
    /\ exitStatus' = 0
    /\ cause' = why
    /\ ticker' = IF ticker = "running" THEN "stopped" ELSE ticker
    /\ streamCloses' = IF streamWasOpen /\ why # "closed" THEN streamCloses + 1
                       ELSE streamCloses
    /\ connCloses' = IF variant = "app" THEN connCloses + 1 ELSE connCloses

\* TailAndProcess returns to main, which returns: the deferred calls run
\* (ticker.Stop, stream.Close when the stream was opened, main's close of the
\* connection in app.go) and the process ends.
ReturnToMain(why, streamWasOpen) ==
    /\ pc' = "exited"
    /\ exitStatus' = ReturnStatus
    /\ cause' = why
    /\ ticker' = IF ticker = "running" THEN "stopped" ELSE ticker
    /\ streamCloses' = IF streamWasOpen THEN streamCloses + 1 ELSE streamCloses
    /\ connCloses' = IF MainClosesConn(variant) THEN connCloses + 1 ELSE connCloses

\* TailAndProcess: OpenStreamSync succeeds; app.go creates its ticker now.
OpenStreamOk ==
    /\ Running /\ pc = "open"
    /\ streamOpens' = streamOpens + 1
    /\ ticker' = "running"
    /\ pc' = "select"
    /\ UNCHANGED <<variant, Memory, exitStatus, cause, connOpens, connCloses, streamCloses,
                   tailStarted, tickPending, offer, tailClosed, received, events,
                   writes, Requsts>>

\* TailAndProcess: OpenStreamSync fails; the error is printed and it returns.
OpenStreamFail ==
    /\ Running /\ pc = "open"
    /\ IF OpenErrReturns(variant)
       THEN ReturnToMain("open", FALSE)
       ELSE /\ pc' = "select"
            /\ ticker' = "running"
            /\ UNCHANGED <<exitStatus, cause, streamCloses, connCloses>>
    /\ UNCHANGED <<variant, Memory, connOpens, streamOpens, tailStarted, tickPending, offer,
                   tailClosed, received, events, writes, Requsts>>

\* The tail goroutine has read one more line and blocks sending it on t.Lines.
TailProduce ==
    /\ Running /\ tailStarted /\ ~tailClosed /\ offer = <<>>
    /\ Len(LineEvents) < MaxLines
    /\ \E line \in Lines :
          /\ offer' = <<line>>
          /\ events' = Append(events, [kind |-> "line", text |-> line.Text, err |-> line.Err])
    /\ UNCHANGED <<variant, Memory, pc, exitStatus, cause, connOpens, connCloses, streamOpens,
                   streamCloses, tailStarted, ticker, tickPending, tailClosed,
                   received, writes, Requsts>>

\* The tail goroutine stops and closes t.Lines.
TailClose ==
    /\ Running /\ tailStarted /\ ~tailClosed /\ offer = <<>>
    /\ tailClosed' = TRUE
    /\ UNCHANGED <<variant, Memory, pc, exitStatus, cause, connOpens, connCloses, streamOpens,
                   streamCloses, tailStarted, ticker, tickPending, offer, received,
                   events, writes, Requsts>>

\* An interval of the ticker elapses (at most n in a run).  ticker.C holds one
\* tick: a tick that finds the slot full is dropped by the runtime.
TickWithin(n) ==
    /\ Running /\ ticker = "running" /\ LoopBlocked
    /\ Len(TickEvents) < n
    /\ tickPending' = TRUE
    /\ events' = Append(events, [kind |-> "tick", text |-> <<>>, err |-> FALSE])
    /\ UNCHANGED <<variant, Memory, pc, exitStatus, cause, connOpens, connCloses, streamOpens,
                   streamCloses, tailStarted, ticker, offer, tailClosed, received,
                   writes, Requsts>>

Tick == TickWithin(MaxTicks)

\* An interval elapses in a run in which the file stays silent.
QuietTick == TickWithin(MaxQuietTicks)

\* One stream.Write call by the loop, from the call until it returns.
NewWrite(kind, sl, data) ==
    [by |-> "loop", kind |-> kind, sl |-> sl, data |-> data, res |-> "pending"]

\* select takes case line, ok := <-t.Lines with ok = true.  A skipped line goes
\* back to select; otherwise the record is built, marshalled and written.
SelectLine ==
    /\ Running /\ pc = "select" /\ offer # <<>>
    /\ LET line == offer[1]
           sl == NewSyslogLine(variant, line.Text)
       IN  /\ received' = Append(received, line)
           /\ offer' = <<>>
           /\ Memory' = IF LineSkipped(variant, line) THEN Memory
                         ELSE BufferLineLocking(variant, Memory)
           /\ IF LineSkipped(variant, line)
              THEN UNCHANGED <<pc, writes>>
              ELSE /\ writes' = Append(writes, NewWrite("line", sl, LineData(variant, sl)))
                   /\ pc' = PcDuringWrite
    /\ UNCHANGED <<variant, exitStatus, cause, connOpens, connCloses, streamOpens,
                   streamCloses, tailStarted, ticker, tickPending, tailClosed, events,
                   Requsts>>

\* select takes case line, ok := <-t.Lines with ok = false: the loop returns.
SelectClosed ==
    /\ Running /\ pc = "select" /\ offer = <<>> /\ tailClosed
    /\ ReturnToMain("closed", TRUE)
    /\ UNCHANGED <<variant, Memory, connOpens, streamOpens, tailStarted, tickPending, offer,
                   tailClosed, received, events, writes, Requsts>>

\* select takes case <-ticker.C: the heartbeat is written.
SelectTick ==
    /\ Running /\ pc = "select" /\ tickPending
    /\ tickPending' = FALSE
    /\ writes' = Append(writes, NewWrite("beat", BeatSyslogLine, BeatData(variant)))
    /\ pc' = PcDuringWrite
    /\ UNCHANGED <<variant, Memory, exitStatus, cause, connOpens, connCloses, streamOpens,
                   streamCloses, tailStarted, ticker, offer, tailClosed, received,
                   events, Requsts>>

SetLastRes(res) == [writes EXCEPT ![Len(writes)].res = res]

\* stream.Write returns nil.
WriteOk ==
    /\ Running /\ pc = "writing"
    /\ writes' = SetLastRes("ok")
    /\ pc' = AfterWriteOk(variant)
    /\ UNCHANGED <<variant, Memory, exitStatus, cause, connOpens, connCloses, streamOpens,
                   streamCloses, tailStarted, ticker, tickPending, offer, tailClosed,
                   received, events, Requsts>>

\* stream.Write returns an error.
WriteErr ==
    /\ Running /\ pc = "writing"
    /\ LET w == writes[Len(writes)]
       IN  /\ writes' = SetLastRes("err")
           /\ Requsts' = RequstsAfterWriteErr(variant, w.kind, Requsts, w.sl)
           /\ Memory' = AddRequestLocking(variant, w.kind, Memory)
           /\ IF WriteErrReturns(variant, w.kind)
              THEN ReturnToMain("write", TRUE)
              ELSE /\ pc' = "select"
                   /\ UNCHANGED <<exitStatus, cause, ticker, streamCloses, connCloses>>
    /\ UNCHANGED <<variant, connOpens, streamOpens, tailStarted, tickPending, offer,
                   tailClosed, received, events>>

\* part_000: stream.Read returns data from the peer.
ReadOk ==
    /\ Running /\ pc = "reading"
    /\ pc' = "select"
    /\ UNCHANGED <<variant, Memory, exitStatus, cause, connOpens, connCloses, streamOpens,
                   streamCloses, tailStarted, ticker, tickPending, offer, tailClosed,
                   received, events, writes, Requsts>>

\* part_000: stream.Read returns an error; the loop returns.
ReadErr ==
    /\ Running /\ pc = "reading"
    /\ ReturnToMain("read", TRUE)
    /\ UNCHANGED <<variant, Memory, connOpens, streamOpens, tailStarted, tickPending, offer,
                   tailClosed, received, events, writes, Requsts>>

Next ==
    \/ ConnectOk
    \/ ConnectFail
    \/ TailOk
    \/ TailFail
    \/ OpenStreamOk
    \/ OpenStreamFail
    \/ TailProduce
    \/ TailClose
    \/ Tick
    \/ SelectLine
    \/ SelectClosed
    \/ SelectTick
    \/ WriteOk
    \/ WriteErr
    \/ ReadOk
    \/ ReadErr

Spec == Init /\ [][Next]_vars

\* The runs under the scheduling the Go runtime and a healthy stream give: a
\* select case that is ready again and again is taken in the end (select picks
\* among the ready cases at random), and a stream.Write that was called
\* returns.  Nothing makes the peer send data, so stream.Read has no such
\* guarantee, and nothing makes the file grow or the tail stop.
SpecFair ==
    /\ Spec
    /\ SF_vars(SelectLine)
    /\ SF_vars(SelectTick)
    /\ SF_vars(SelectClosed)
    /\ WF_vars(WriteOk \/ WriteErr)

\* The runs in which the tail producer never delivers a line.
NextQuiet ==
    \/ ConnectOk
    \/ ConnectFail
    \/ TailOk
    \/ TailFail
    \/ OpenStreamOk
    \/ OpenStreamFail
    \/ TailClose
    \/ QuietTick
    \/ SelectClosed
    \/ SelectTick
    \/ WriteOk
    \/ WriteErr
    \/ ReadOk
    \/ ReadErr

SpecQuiet == Init /\ [][NextQuiet]_vars

\* ------------------------------------------------------ the receiver's view
OkWrites == SelectSeq(writes, LAMBDA w : w.res = "ok")
LineWrites == SelectSeq(writes, LAMBDA w : w.kind = "line")
BeatWrites == SelectSeq(writes, LAMBDA w : w.kind = "beat")

\* The bytes the receiver has got: the data of the completed writes, in order.
WireBytes == Flatten([i \in 1..Len(OkWrites) |-> OkWrites[i].data])

RECURSIVE SplitLF(_, _)
\* bytes split on LF, cur being the unit under way; a non-empty rest after the
\* last LF is a unit too
SplitLF(bytes, cur) ==
    IF bytes = <<>> THEN (IF cur = <<>> THEN <<>> ELSE <<cur>>)
    ELSE IF Head(bytes) = "LF" THEN <<cur>> \o SplitLF(Tail(bytes), <<>>)
    ELSE SplitLF(Tail(bytes), Append(cur, Head(bytes)))

ReceiverUnits == SplitLF(WireBytes, <<>>)

RECURSIVE Unescape(_)
\* a JSON decoder on the bytes of a string
Unescape(b) ==
    IF b = <<>> THEN <<>>
    ELSE IF Head(b) = "BSLASH" THEN <<b[2]>> \o Unescape(Tail(Tail(b)))
    ELSE IF Head(b) = "ESC_FFFD" THEN <<"FFFD">> \o Unescape(Tail(b))
    ELSE <<Head(b)>> \o Unescape(Tail(b))

\* the message a JSON decoder reads from the bytes of one log-record write
MessageOf(v, data) ==
    LET json == IF data[Len(data)] = "LF" THEN SubSeq(data, 1, Len(data) - 1) ELSE data
        first == IF v = "app" THEN 2 ELSE 3
    IN  Unescape(SubSeq(json, first, Len(json) - 1))

\* a text with every byte that is not valid UTF-8 replaced by U+FFFD
Coerced(t) == [i \in 1..Len(t) |-> IF t[i] = "BAD" THEN "FFFD" ELSE t[i]]

NoWriteFailed == \A i \in 1..Len(writes) : writes[i].res # "err"
NoLineErr == \A i \in 1..Len(received) : ~received[i].Err

\* ------------------------------------------------------------------ claims
\* C1 (as stated): while no write fails and no line carries a read error, the
\* log records written are as many as the lines received, in the same order,
\* and the i-th record's message equals the i-th line's text.
C1_MessageIsExactText ==
    (NoWriteFailed /\ NoLineErr) =>
        /\ Len(LineWrites) = Len(received)
        /\ \A i \in 1..Len(LineWrites) :
              MessageOf(variant, LineWrites[i].data) = received[i].Text

\* C1 (amended): while no write fails and no line carries a read error, the
\* log records written are as many as the lines received, in the same order,
\* and the i-th record's message is the i-th line's text with every byte that
\* is not valid UTF-8 replaced by U+FFFD (so it is the exact text whenever the
\* text is valid UTF-8).
C1_InOrderNoLossNoDup ==
    (NoWriteFailed /\ NoLineErr) =>
        /\ Len(LineWrites) = Len(received)
        /\ \A i \in 1..Len(LineWrites) :
              /\ MessageOf(variant, LineWrites[i].data) = Coerced(received[i].Text)
              /\ LineWrites[i].sl.Message = received[i].Text

C1_Witness ==
    /\ NoWriteFailed /\ NoLineErr
    /\ Len(received) = 2
    /\ received[1].Text = <<"BAD">> /\ received[2].Text = <<"a", "QUOTE">>
    /\ Len(OkWrites) = Len(writes)
    /\ Len(LineWrites) = 2

\* C2: no write is attempted after a write that failed, whether a log record
\* or a heartbeat failed: only the last write can have failed, and once it has
\* the loop has returned, the stream is closed and the process has ended.
C2_NoWriteAfterFailure ==
    /\ \A i \in 1..(Len(writes) - 1) : writes[i].res = "ok"
    /\ (Len(writes) > 0 /\ writes[Len(writes)].res = "err") =>
          /\ pc = "exited"
          /\ cause = "write"
          /\ streamCloses = 1
          /\ ticker = "stopped"

C2_Witness ==
    /\ Len(writes) = 3
    /\ writes[1].kind = "line" /\ writes[2].kind = "beat" /\ writes[3].kind = "beat"
    /\ writes[3].res = "err"
    /\ pc = "exited"

\* C3: every record and every heartbeat written ends with the delimiter LF, so
\* a receiver that splits the bytes on LF gets each write as a unit of its own.
C3_EveryWriteIsOneUnit ==
    /\ \A i \in 1..Len(OkWrites) : OkWrites[i].data[Len(OkWrites[i].data)] = "LF"
    /\ ReceiverUnits =
          [i \in 1..Len(OkWrites) |->
              SubSeq(OkWrites[i].data, 1, Len(OkWrites[i].data) - 1)]

\* C4: while the stream is healthy (open, no write failed, no write under way)
\* and no line has arrived, every interval that elapses leads to exactly one
\* heartbeat write: the tick of an elapsed interval is never lost (it never
\* finds the tick of an earlier interval still unwritten), no heartbeat is
\* written without a tick, and a heartbeat carries no line content.
C4_OneHeartbeatPerInterval ==
    /\ [](/\ Len(BeatWrites) <= Len(TickEvents)
          /\ \A i \in 1..Len(BeatWrites) : BeatWrites[i].sl.Message = <<>>)
    /\ [][(/\ pc \in {"select", "reading"}
           /\ NoWriteFailed
           /\ LineEvents' = <<>>
           /\ Len(TickEvents') = Len(TickEvents) + 1) => ~tickPending]_vars

\* C5: records and heartbeats are written in the order in which their events
\* (line available, interval elapsed) occurred: once every event has been
\* written, the i-th write is the i-th event.
C5_WireOrderIsEventOrder ==
    (/\ \A i \in 1..Len(events) : ~events[i].err
     /\ Len(writes) = Len(events)) =>
        \A i \in 1..Len(writes) :
            /\ writes[i].kind = (IF events[i].kind = "tick" THEN "beat" ELSE "line")
            /\ writes[i].sl.Message = events[i].text

\* C6: a process that ended because of an error (connect, tail start, stream
\* open, stream write) ended with a non-zero status.
C6_ErrorExitIsNonZero ==
    (pc = "exited" /\ cause \in {"connect", "tail", "open", "write"}) => exitStatus # 0

\* C7: the connection is opened at most once, and a process that ended after
\* the connect succeeded has closed the connection exactly once.
C7_ConnClosedOnceOnExit ==
    /\ connOpens <= 1
    /\ (pc = "exited" /\ connOpens = 1) => connCloses = 1

\* the records whose write failed, in failure order
FailedLineRecords ==
    LET failed == SelectSeq(writes, LAMBDA w : w.kind = "line" /\ w.res = "err")
    IN  [i \in 1..Len(failed) |-> failed[i].sl]

\* C8: in part_000 App.Requsts holds exactly the log records whose write
\* failed, in failure order: it is empty until a log-record write has failed.
C8_RequstsAreTheFailedRecords ==
    variant = "part_000" => RequstsSlice = FailedLineRecords

\* C9: at most one stream.Write is in progress, it is the loop that is inside
\* it, every write was issued by the loop, and a step of the tail producer or
\* of the ticker writes nothing.
C9_SingleWriter ==
    /\ [](/\ Cardinality({i \in 1..Len(writes) : writes[i].res = "pending"}) <= 1
          /\ \A i \in 1..Len(writes) :
                /\ writes[i].by = "loop"
                /\ writes[i].res = "pending" => (i = Len(writes) /\ pc = "writing"))
    /\ [][(events' # events \/ tailClosed' # tailClosed) => writes' = writes]_vars

C9_Witness ==
    /\ pc = "writing"
    /\ tickPending
    /\ offer # <<>>
    /\ Len(writes) = 2
    /\ writes[2].res = "pending"

\* The phase of the delivery loop the main goroutine is in.  DRAINING is the
\* run of the deferred calls on return, which is part of the step that ends
\* the process.
Phase ==
    IF pc \in {"connect", "tail", "open"} THEN "CONNECTING"
    ELSE IF pc \in {"select", "writing", "reading"} THEN "STREAMING"
    ELSE "TERMINATED"

PhaseRank(ph) == IF ph = "CONNECTING" THEN 1 ELSE IF ph = "STREAMING" THEN 2 ELSE 3

\* C11: the phases only move forward (CONNECTING, STREAMING, TERMINATED), and
\* STREAMING is entered only with the connection and the stream open; nothing
\* is written before both the connect and the stream-open have succeeded; a
\* failed connect or stream-open ends the process with nothing written and
\* nothing opened again; once TERMINATED nothing changes any more.
C11_PhasesOnlyForward ==
    /\ [](/\ Phase = "STREAMING" => (connOpens = 1 /\ streamOpens = 1)
          /\ writes # <<>> => (connOpens = 1 /\ streamOpens = 1)
          /\ cause = "connect" => (Phase = "TERMINATED" /\ connOpens = 0 /\ streamOpens = 0
                                     /\ writes = <<>>)
          /\ cause = "open" => (Phase = "TERMINATED" /\ streamOpens = 0 /\ writes = <<>>))
    /\ [][/\ PhaseRank(Phase') >= PhaseRank(Phase)
          /\ Phase # "TERMINATED"]_vars

C11_Witness ==
    /\ Phase = "TERMINATED"
    /\ cause = "open"
    /\ connOpens = 1
    /\ events # <<>>

\* C12: in STREAMING the loop is suspended only in select or in the write of
\* the event it is handling, never waiting for a third event; so a tick that
\* has fired is followed by its heartbeat write and a line that is available
\* is taken and written (unless the process ends first).
C12_WaitsOnlyOnLinesAndTicks ==
    /\ [](Phase = "STREAMING" => pc \in {"select", "writing"})
    /\ (Phase = "STREAMING" /\ tickPending) ~> (~tickPending \/ ~Running)
    /\ (Phase = "STREAMING" /\ offer # <<>>) ~> (offer = <<>> \/ ~Running)

\* C13: a line delivered with a read error causes no write, leaves the loop
\* in select with the stream open and App.Requsts unchanged, and the lines
\* after it are still written: the records written are the lines received
\* without a read error.  (json.Marshal cannot fail on a SyslogLine, so there
\* is no encoding failure to handle.)
C13_ErrLineSkipped ==
    /\ [](NoWriteFailed =>
             Len(LineWrites) = Len(SelectSeq(received, LAMBDA l : ~l.Err)))
    /\ [][(Len(received') = Len(received) + 1 /\ received'[Len(received')].Err) =>
             /\ writes' = writes
             /\ pc' = "select"
             /\ UNCHANGED <<Requsts, streamCloses, exitStatus>>]_vars

\* C14: in part_000 the mutex App.Memory is free whenever the loop is
\* suspended (in select, stream.Write, stream.Read or OpenStreamSync) and when
\* the process has ended, and it is never locked while held nor unlocked while
\* free: every Lock is followed by its Unlock before the next blocking call.
C14_MutexFreeWhenBlocked ==
    variant = "part_000" => (~Memory.held /\ ~Memory.bad)

C14_Witness ==
    /\ variant = "part_000"
    /\ Memory.locks = 3
    /\ Len(received) = 2
    /\ Requsts.appended # <<>>
    /\ pc = "exited"

\* C15: at most one stream is ever opened, it is opened before anything is
\* written, and no stream is opened after a write, after a failure or once a
\* record has been buffered: every write goes to that one stream.
C15_OneStream ==
    /\ [](/\ streamOpens <= 1
          /\ writes # <<>> => streamOpens = 1)
    /\ [][streamOpens' # streamOpens =>
             /\ streamOpens = 0 /\ streamOpens' = 1
             /\ writes = <<>>
             /\ cause = "none"
             /\ Requsts.appended = <<>>]_vars

C15_Witness ==
    /\ streamOpens = 1
    /\ Len(OkWrites) = 3
    /\ Len(BeatWrites) = 2
    /\ Len(writes) = 4
    /\ writes[4].res = "err"
    /\ writes[4].kind = "line"
    /\ pc = "exited"

\* C16: the stream is closed only after it was opened and only as the loop is
\* left; a process that ended after the stream was opened (tail channel
\* closed, write failure, read failure) has closed it exactly once; and no
\* write starts or is under way once the stream is closed.
C16_StreamClosedOnceOnExit ==
    /\ [](/\ streamCloses <= streamOpens
          /\ Running => streamCloses = 0
          /\ (pc = "exited" /\ streamOpens = 1) => streamCloses = 1
          /\ streamCloses > 0 => \A i \in 1..Len(writes) : writes[i].res # "pending")
    /\ [][streamCloses > 0 => Len(writes') = Len(writes)]_vars

C16_Witness ==
    /\ pc = "exited"
    /\ cause = "closed"
    /\ streamOpens = 1
    /\ streamCloses = 1
    /\ Len(OkWrites) = 2

\* C17: once t.Lines is closed while the loop is STREAMING the process ends in
\* the end; no log-record write starts after the closure, and the step that
\* takes the closed channel writes nothing and leaves App.Requsts as it was.
C17_ClosedChannelEndsLoop ==
    /\ (tailClosed /\ Phase = "STREAMING") ~> (pc = "exited")
    /\ [][tailClosed => Len(LineWrites') = Len(LineWrites)]_vars
    /\ [][(cause = "none" /\ cause' = "closed") =>
             (writes' = writes /\ Requsts' = Requsts)]_vars

====
